---- MODULE Spec2Model ----
(***************************************************************************)
(* cw-usdc: the permission and allowance state machine of the contract.    *)
(* The state is the contract storage (the singleton CONFIG and the five    *)
(* maps keyed by address) and the response of the last entry-point call.   *)
(* Every handler is an operator from the storage and the call's arguments  *)
(* to a result, the storage as the handler leaves it when it returns, and  *)
(* the messages of the returned Response.  The record of the last call     *)
(* keeps the storage the call started from, until the host takes the       *)
(* response and the next call can start.  The storage a handler returns on *)
(* an error is the storage at the point of the early return: the host's    *)
(* rollback of a failed call is not applied, so that a write made before a *)
(* failing check is visible.  granted and consumed keep, per role and      *)
(* principal, the amount of the most recent successful grant and the total *)
(* of the successful mints or burns since.                                 *)
(***************************************************************************)
EXTENDS Integers, Sequences, FiniteSets, TLC

VARIABLES CONFIG, MINTER_ALLOWANCES, BURNER_ALLOWANCES, FREEZER_ALLOWANCES,
          BLACKLISTER_ALLOWANCES, BLACKLISTED_ADDRESSES, last, steps,
          granted, consumed

vars == <<CONFIG, MINTER_ALLOWANCES, BURNER_ALLOWANCES, FREEZER_ALLOWANCES,
          BLACKLISTER_ALLOWANCES, BLACKLISTED_ADDRESSES, last, steps,
          granted, consumed>>

\* ---------------------------------------------------------------- bounds
\* largest Uint128 amount passed to a call
MaxAmount == 2
\* number of entry-point calls made after instantiate
MaxSteps == 3

\* ---------------------------------------------------------------- inputs
\* well-formed addresses (accepted by deps.api.addr_validate)
Addrs == {"addr1", "addr2"}
\* a string deps.api.addr_validate rejects
BadAddr == "!"
\* the String arguments a call can carry
Strings == Addrs \cup {BadAddr}
Amounts == 0..MaxAmount
\* msg.subdenom of InstantiateMsg
Subdenoms == {"uusdc", "ueurc"}
\* env.contract.address
ContractAddr == "contract"

\* ---------------------------------------------------------------- errors
\* ContractError::Unauthorized {}
Unauthorized == "Unauthorized"
\* ContractError::Frozen {}
Frozen == "Frozen"
\* ContractError::ZeroAmount {}
ZeroAmount == "ZeroAmount"
\* ContractError::Std(StdError::GenericErr) of addr_validate: the invalid-address error
InvalidAddress == "Std(GenericErr)"
\* ContractError::Std(StdError::Overflow) of checked_sub: the insufficient-allowance error
InsufficientAllowance == "Std(Overflow)"
\* ContractError::Std(StdError::NotFound) of Map::load on an absent key
NotFound == "Std(NotFound)"
OkRes == "Ok"

\* ---------------------------------------------------------------- storage
\* a Map is a function whose domain is the set of keys it holds
EmptyMap == [k \in {} |-> 0]

may_load(m, k) == IF k \in DOMAIN m THEN <<m[k]>> ELSE <<>>

save(m, k, v) == [x \in (DOMAIN m) \cup {k} |-> IF x = k THEN v ELSE m[x]]

\* Option<Uint128>::unwrap_or_default
unwrap_or_default(opt) == IF opt = <<>> THEN 0 ELSE opt[1]

\* deps.api.addr_validate: Ok for a well-formed address, Err otherwise
addr_validate(str) == str \in Addrs

\* the storage as one record
Store == [CONFIG |-> CONFIG,
          MINTER_ALLOWANCES |-> MINTER_ALLOWANCES,
          BURNER_ALLOWANCES |-> BURNER_ALLOWANCES,
          FREEZER_ALLOWANCES |-> FREEZER_ALLOWANCES,
          BLACKLISTER_ALLOWANCES |-> BLACKLISTER_ALLOWANCES,
          BLACKLISTED_ADDRESSES |-> BLACKLISTED_ADDRESSES]

\* Err(e): the storage is what the handler wrote up to the early return
Err(e, s) == [res |-> e, store |-> s, msgs |-> <<>>, data |-> <<>>]

\* Ok(Response) with its messages
Ok(s, msgs) == [res |-> OkRes, store |-> s, msgs |-> msgs, data |-> <<>>]

\* Ok(value) of a query
OkData(s, v) == [res |-> OkRes, store |-> s, msgs |-> <<>>, data |-> <<v>>]

\* helpers::check_is_contract_owner
check_is_contract_owner(s, sender) == s.CONFIG.owner = sender

\* ---------------------------------------------------------------- execute.rs

\* mint with a saturating subtraction in place of checked_sub
mint_saturating(s, sender, to_address, amount) ==
    IF ~addr_validate(to_address) THEN Err(InvalidAddress, s)
    ELSE IF amount = 0 THEN Err(ZeroAmount, s)
    ELSE LET allowance == unwrap_or_default(may_load(s.MINTER_ALLOWANCES, sender))
             left == IF allowance < amount THEN 0 ELSE allowance - amount
             s2 == [s EXCEPT !.MINTER_ALLOWANCES = save(@, sender, left)]
             denom == s2.CONFIG.denom
         IN Ok(s2, << [type |-> "MintTokens", denom |-> denom,
                       amount |-> amount, mint_to_address |-> ContractAddr],
                      [type |-> "BankSend", to_address |-> to_address,
                       amount |-> amount, denom |-> denom] >>)

\* mint that applies the decrement twice
mint_double_decrement(s, sender, to_address, amount) ==
    IF ~addr_validate(to_address) THEN Err(InvalidAddress, s)
    ELSE IF amount = 0 THEN Err(ZeroAmount, s)
    ELSE LET allowance == unwrap_or_default(may_load(s.MINTER_ALLOWANCES, sender))
         IN IF allowance < amount THEN Err(InsufficientAllowance, s)
            ELSE LET once == allowance - amount
                     twice == IF once < amount THEN 0 ELSE once - amount
                     s2 == [s EXCEPT !.MINTER_ALLOWANCES = save(@, sender, twice)]
                     denom == s2.CONFIG.denom
                 IN Ok(s2, << [type |-> "MintTokens", denom |-> denom,
                               amount |-> amount, mint_to_address |-> ContractAddr],
                              [type |-> "BankSend", to_address |-> to_address,
                               amount |-> amount, denom |-> denom] >>)

\* mint with the zero-amount check ahead of the address validation
mint_zero_first(s, sender, to_address, amount) ==
    IF amount = 0 THEN Err(ZeroAmount, s)
    ELSE IF ~addr_validate(to_address) THEN Err(InvalidAddress, s)
    ELSE LET allowance == unwrap_or_default(may_load(s.MINTER_ALLOWANCES, sender))
         IN IF allowance < amount THEN Err(InsufficientAllowance, s)
            ELSE LET s2 == [s EXCEPT !.MINTER_ALLOWANCES =
                                save(@, sender, allowance - amount)]
                     denom == s2.CONFIG.denom
                 IN Ok(s2, << [type |-> "MintTokens", denom |-> denom,
                               amount |-> amount, mint_to_address |-> ContractAddr],
                              [type |-> "BankSend", to_address |-> to_address,
                               amount |-> amount, denom |-> denom] >>)

\* mint that refuses while the contract is frozen
mint_checks_frozen(s, sender, to_address, amount) ==
    IF ~addr_validate(to_address) THEN Err(InvalidAddress, s)
    ELSE IF amount = 0 THEN Err(ZeroAmount, s)
    ELSE IF s.CONFIG.is_frozen THEN Err(Frozen, s)
    ELSE LET allowance == unwrap_or_default(may_load(s.MINTER_ALLOWANCES, sender))
         IN IF allowance < amount THEN Err(InsufficientAllowance, s)
            ELSE LET s2 == [s EXCEPT !.MINTER_ALLOWANCES =
                                save(@, sender, allowance - amount)]
                     denom == s2.CONFIG.denom
                 IN Ok(s2, << [type |-> "MintTokens", denom |-> denom,
                               amount |-> amount, mint_to_address |-> ContractAddr],
                              [type |-> "BankSend", to_address |-> to_address,
                               amount |-> amount, denom |-> denom] >>)

mint(s, sender, to_address, amount) ==
    IF ~addr_validate(to_address) THEN Err(InvalidAddress, s)
    ELSE IF amount = 0 THEN Err(ZeroAmount, s)
    ELSE LET allowance == unwrap_or_default(may_load(s.MINTER_ALLOWANCES, sender))
         IN IF allowance < amount THEN Err(InsufficientAllowance, s)
            ELSE LET s2 == [s EXCEPT !.MINTER_ALLOWANCES =
                                save(@, sender, allowance - amount)]
                     denom == s2.CONFIG.denom
                 IN Ok(s2, << [type |-> "MintTokens", denom |-> denom,
                               amount |-> amount, mint_to_address |-> ContractAddr],
                              [type |-> "BankSend", to_address |-> to_address,
                               amount |-> amount, denom |-> denom] >>)

\* burn without the zero-amount check
burn_no_zero_check(s, sender, amount) ==
    LET allowance == unwrap_or_default(may_load(s.BURNER_ALLOWANCES, sender))
    IN IF allowance < amount THEN Err(InsufficientAllowance, s)
       ELSE LET s2 == [s EXCEPT !.BURNER_ALLOWANCES =
                           save(@, sender, allowance - amount)]
                denom == s2.CONFIG.denom
            IN Ok(s2, << [type |-> "BurnTokens", denom |-> denom,
                          amount |-> amount, burn_from_address |-> ""] >>)

burn(s, sender, amount) ==
    IF amount = 0 THEN Err(ZeroAmount, s)
    ELSE LET allowance == unwrap_or_default(may_load(s.BURNER_ALLOWANCES, sender))
         IN IF allowance < amount THEN Err(InsufficientAllowance, s)
            ELSE LET s2 == [s EXCEPT !.BURNER_ALLOWANCES =
                                save(@, sender, allowance - amount)]
                     denom == s2.CONFIG.denom
                 IN Ok(s2, << [type |-> "BurnTokens", denom |-> denom,
                               amount |-> amount, burn_from_address |-> ""] >>)

\* change_contract_owner that saves a fresh Config around the new owner
change_contract_owner_fresh_config(s, sender, new_owner) ==
    IF ~check_is_contract_owner(s, sender) THEN Err(Unauthorized, s)
    ELSE IF ~addr_validate(new_owner) THEN Err(InvalidAddress, s)
    ELSE Ok([s EXCEPT !.CONFIG = [owner |-> new_owner, is_frozen |-> FALSE,
                                  denom |-> s.CONFIG.denom]], <<>>)

change_contract_owner(s, sender, new_owner) ==
    IF ~check_is_contract_owner(s, sender) THEN Err(Unauthorized, s)
    ELSE IF ~addr_validate(new_owner) THEN Err(InvalidAddress, s)
    ELSE Ok([s EXCEPT !.CONFIG.owner = new_owner], <<>>)

\* change_tokenfactory_admin that also hands the contract to the new admin
change_tokenfactory_admin_moves_owner(s, sender, new_admin_address) ==
    IF ~check_is_contract_owner(s, sender) THEN Err(Unauthorized, s)
    ELSE IF ~addr_validate(new_admin_address) THEN Err(InvalidAddress, s)
    ELSE Ok([s EXCEPT !.CONFIG.owner = new_admin_address],
            << [type |-> "ChangeAdmin", denom |-> s.CONFIG.denom,
                new_admin_address |-> new_admin_address] >>)

change_tokenfactory_admin(s, sender, new_admin_address) ==
    IF ~check_is_contract_owner(s, sender) THEN Err(Unauthorized, s)
    ELSE IF ~addr_validate(new_admin_address) THEN Err(InvalidAddress, s)
    ELSE Ok(s, << [type |-> "ChangeAdmin", denom |-> s.CONFIG.denom,
                   new_admin_address |-> new_admin_address] >>)

\* set_blacklister that writes the freezer map
set_blacklister_wrong_map(s, sender, address, status) ==
    IF ~check_is_contract_owner(s, sender) THEN Err(Unauthorized, s)
    ELSE IF ~addr_validate(address) THEN Err(InvalidAddress, s)
    ELSE Ok([s EXCEPT !.FREEZER_ALLOWANCES = save(@, address, status)], <<>>)

set_blacklister(s, sender, address, status) ==
    IF ~check_is_contract_owner(s, sender) THEN Err(Unauthorized, s)
    ELSE IF ~addr_validate(address) THEN Err(InvalidAddress, s)
    ELSE Ok([s EXCEPT !.BLACKLISTER_ALLOWANCES = save(@, address, status)], <<>>)

\* set_freezer that can only raise the flag
set_freezer_sticky(s, sender, address, status) ==
    IF ~check_is_contract_owner(s, sender) THEN Err(Unauthorized, s)
    ELSE IF ~addr_validate(address) THEN Err(InvalidAddress, s)
    ELSE Ok([s EXCEPT !.FREEZER_ALLOWANCES =
                 save(@, address, status \/ may_load(@, address) = <<TRUE>>)], <<>>)

set_freezer(s, sender, address, status) ==
    IF ~check_is_contract_owner(s, sender) THEN Err(Unauthorized, s)
    ELSE IF ~addr_validate(address) THEN Err(InvalidAddress, s)
    ELSE Ok([s EXCEPT !.FREEZER_ALLOWANCES = save(@, address, status)], <<>>)

\* set_burner that saves before it checks the sender
set_burner_write_first(s, sender, address, allowance) ==
    LET s2 == [s EXCEPT !.BURNER_ALLOWANCES = save(@, address, allowance)]
    IN IF ~addr_validate(address) THEN Err(InvalidAddress, s)
       ELSE IF ~check_is_contract_owner(s, sender) THEN Err(Unauthorized, s2)
       ELSE Ok(s2, <<>>)

set_burner(s, sender, address, allowance) ==
    IF ~check_is_contract_owner(s, sender) THEN Err(Unauthorized, s)
    ELSE IF ~addr_validate(address) THEN Err(InvalidAddress, s)
    ELSE Ok([s EXCEPT !.BURNER_ALLOWANCES = save(@, address, allowance)], <<>>)

\* set_minter without the owner check
set_minter_unchecked(s, sender, address, allowance) ==
    IF ~addr_validate(address) THEN Err(InvalidAddress, s)
    ELSE Ok([s EXCEPT !.MINTER_ALLOWANCES = save(@, address, allowance)], <<>>)

\* set_minter that adds the grant to what the minter holds
set_minter_additive(s, sender, address, allowance) ==
    IF ~check_is_contract_owner(s, sender) THEN Err(Unauthorized, s)
    ELSE IF ~addr_validate(address) THEN Err(InvalidAddress, s)
    ELSE Ok([s EXCEPT !.MINTER_ALLOWANCES =
                 save(@, address, unwrap_or_default(may_load(@, address)) + allowance)],
            <<>>)

set_minter(s, sender, address, allowance) ==
    IF ~check_is_contract_owner(s, sender) THEN Err(Unauthorized, s)
    ELSE IF ~addr_validate(address) THEN Err(InvalidAddress, s)
    ELSE Ok([s EXCEPT !.MINTER_ALLOWANCES = save(@, address, allowance)], <<>>)

\* freeze that also lets the contract owner through
freeze_owner_too(s, sender, status) ==
    IF may_load(s.FREEZER_ALLOWANCES, sender) # <<TRUE>>
       /\ ~check_is_contract_owner(s, sender) THEN Err(Unauthorized, s)
    ELSE Ok([s EXCEPT !.CONFIG.is_frozen = status], <<>>)

\* freeze that saves a fresh Config around the new status
freeze_fresh_config(s, sender, status) ==
    IF may_load(s.FREEZER_ALLOWANCES, sender) # <<TRUE>> THEN Err(Unauthorized, s)
    ELSE Ok([s EXCEPT !.CONFIG = [owner |-> s.CONFIG.owner, is_frozen |-> status,
                                  denom |-> ""]], <<>>)

freeze(s, sender, status) ==
    IF may_load(s.FREEZER_ALLOWANCES, sender) # <<TRUE>> THEN Err(Unauthorized, s)
    ELSE Ok([s EXCEPT !.CONFIG.is_frozen = status], <<>>)

blacklist(s, sender, address, status) ==
    IF may_load(s.BLACKLISTER_ALLOWANCES, sender) # <<TRUE>> THEN Err(Unauthorized, s)
    ELSE IF ~addr_validate(address) THEN Err(InvalidAddress, s)
    ELSE Ok([s EXCEPT !.BLACKLISTED_ADDRESSES = save(@, address, status)], <<>>)

\* ---------------------------------------------------------------- contract.rs
query_denom(s) == OkData(s, s.CONFIG.denom)

query_is_frozen(s) == OkData(s, s.CONFIG.is_frozen)

\* the Response built with mint_tokens_msg is dropped: the one returned has no message
execute_mint(s, sender, to_address, amount) ==
    IF ~addr_validate(to_address) THEN Err(InvalidAddress, s)
    ELSE IF amount = 0 THEN Err(ZeroAmount, s)
    ELSE LET allowance == unwrap_or_default(may_load(s.MINTER_ALLOWANCES, sender))
         IN IF allowance < amount THEN Err(InsufficientAllowance, s)
            ELSE Ok([s EXCEPT !.MINTER_ALLOWANCES =
                         save(@, sender, allowance - amount)], <<>>)

\* Map::load fails with NotFound on an absent key
execute_blacklist(s, sender, address, status) ==
    IF ~addr_validate(address) THEN Err(InvalidAddress, s)
    ELSE IF sender \notin DOMAIN s.BLACKLISTER_ALLOWANCES THEN Err(NotFound, s)
    ELSE IF s.BLACKLISTER_ALLOWANCES[sender] = FALSE THEN Err(Unauthorized, s)
    ELSE Ok([s EXCEPT !.BLACKLISTED_ADDRESSES = save(@, address, status)], <<>>)

\* beforesend_hook without the is_frozen branch
beforesend_hook_no_freeze(s, from, to, amount) ==
    IF ~addr_validate(from) THEN Err(InvalidAddress, s)
    ELSE IF ~addr_validate(to) THEN Err(InvalidAddress, s)
    ELSE Ok(s, <<>>)

\* beforesend_hook that reads the sender's status with an update defaulting to false
beforesend_hook_writes(s, from, to, amount) ==
    IF ~addr_validate(from) THEN Err(InvalidAddress, s)
    ELSE IF ~addr_validate(to) THEN Err(InvalidAddress, s)
    ELSE IF s.CONFIG.is_frozen THEN Err(Frozen, s)
    ELSE Ok([s EXCEPT !.BLACKLISTED_ADDRESSES =
                 save(@, from, may_load(@, from) = <<TRUE>>)], <<>>)

\* the blacklist status of `from` is loaded and not looked at
beforesend_hook(s, from, to, amount) ==
    IF ~addr_validate(from) THEN Err(InvalidAddress, s)
    ELSE IF ~addr_validate(to) THEN Err(InvalidAddress, s)
    ELSE IF s.CONFIG.is_frozen THEN Err(Frozen, s)
    ELSE LET from_blacklist_status == may_load(s.BLACKLISTED_ADDRESSES, from)
         IN Ok(s, <<>>)

\* execute: the entry point routes Mint and Blacklist
execute(s, sender, msg) ==
    IF msg.type = "Mint" THEN execute_mint(s, sender, msg.to_address, msg.amount)
    ELSE execute_blacklist(s, sender, msg.address, msg.status)

\* sudo: the entry point of the token backend
sudo(s, msg) == beforesend_hook(s, msg.from, msg.to, msg.amount)

\* query: the read-only entry point
query(s, msg) == IF msg = "IsFrozen" THEN query_is_frozen(s) ELSE query_denom(s)

\* ---------------------------------------------------------------- state machine
\* instantiate(sender, msg): the storage after construction
instantiate(sender, subdenom) ==
    Ok([CONFIG |-> [owner |-> sender, is_frozen |-> FALSE, denom |-> "TODO"],
        MINTER_ALLOWANCES |-> EmptyMap,
        BURNER_ALLOWANCES |-> EmptyMap,
        FREEZER_ALLOWANCES |-> EmptyMap,
        BLACKLISTER_ALLOWANCES |-> EmptyMap,
        BLACKLISTED_ADDRESSES |-> EmptyMap], <<>>)

\* nothing granted, nothing consumed
NoAmounts == [MINTER |-> [p \in Addrs |-> 0], BURNER |-> [p \in Addrs |-> 0]]

\* the amounts granted after the call: a successful grant replaces the target's
Granted(op, args, res) ==
    IF res = OkRes /\ op = "set_minter"
    THEN [granted EXCEPT !.MINTER[args.address] = args.allowance]
    ELSE IF res = OkRes /\ op = "set_burner"
    THEN [granted EXCEPT !.BURNER[args.address] = args.allowance]
    ELSE granted

\* the amounts consumed after the call: a successful grant clears the target's,
\* a successful mint or burn adds its amount to the sender's
Consumed(op, sender, args, res) ==
    IF res = OkRes /\ op = "set_minter"
    THEN [consumed EXCEPT !.MINTER[args.address] = 0]
    ELSE IF res = OkRes /\ op = "set_burner"
    THEN [consumed EXCEPT !.BURNER[args.address] = 0]
    ELSE IF res = OkRes /\ op \in {"mint", "execute_mint"}
    THEN [consumed EXCEPT !.MINTER[sender] = @ + args.amount]
    ELSE IF res = OkRes /\ op = "burn"
    THEN [consumed EXCEPT !.BURNER[sender] = @ + args.amount]
    ELSE consumed

\* no call is being answered: the host has taken the last Response
Idle == [op |-> "idle", sender |-> ContractAddr, args |-> <<>>, before |-> Store,
         res |-> OkRes, msgs |-> <<>>, data |-> <<>>]

\* the host runs one call at a time: the storage becomes what the handler left,
\* and the call is recorded with its result
Apply(op, sender, args, r) ==
    /\ last.op = "idle"
    /\ steps < MaxSteps
    /\ steps' = steps + 1
    /\ CONFIG' = r.store.CONFIG
    /\ MINTER_ALLOWANCES' = r.store.MINTER_ALLOWANCES
    /\ BURNER_ALLOWANCES' = r.store.BURNER_ALLOWANCES
    /\ FREEZER_ALLOWANCES' = r.store.FREEZER_ALLOWANCES
    /\ BLACKLISTER_ALLOWANCES' = r.store.BLACKLISTER_ALLOWANCES
    /\ BLACKLISTED_ADDRESSES' = r.store.BLACKLISTED_ADDRESSES
    /\ last' = [op |-> op, sender |-> sender, args |-> args, before |-> Store,
                res |-> r.res, msgs |-> r.msgs, data |-> r.data]
    /\ granted' = Granted(op, args, r.res)
    /\ consumed' = Consumed(op, sender, args, r.res)

Init ==
    \E sender \in Addrs, subdenom \in Subdenoms :
        LET r == instantiate(sender, subdenom) IN
        /\ steps = 0
        /\ CONFIG = r.store.CONFIG
        /\ MINTER_ALLOWANCES = r.store.MINTER_ALLOWANCES
        /\ BURNER_ALLOWANCES = r.store.BURNER_ALLOWANCES
        /\ FREEZER_ALLOWANCES = r.store.FREEZER_ALLOWANCES
        /\ BLACKLISTER_ALLOWANCES = r.store.BLACKLISTER_ALLOWANCES
        /\ BLACKLISTED_ADDRESSES = r.store.BLACKLISTED_ADDRESSES
        /\ last = [op |-> "instantiate", sender |-> sender,
                   args |-> [subdenom |-> subdenom], before |-> r.store,
                   res |-> r.res, msgs |-> r.msgs, data |-> r.data]
        /\ granted = NoAmounts
        /\ consumed = NoAmounts

Mint ==
    \E sender \in Addrs, to_address \in Strings, amount \in Amounts :
        Apply("mint", sender, [to_address |-> to_address, amount |-> amount],
              mint(Store, sender, to_address, amount))

Burn ==
    \E sender \in Addrs, amount \in Amounts :
        Apply("burn", sender, [amount |-> amount], burn(Store, sender, amount))

ChangeContractOwner ==
    \E sender \in Addrs, new_owner \in Strings :
        Apply("change_contract_owner", sender, [new_owner |-> new_owner],
              change_contract_owner(Store, sender, new_owner))

ChangeTokenfactoryAdmin ==
    \E sender \in Addrs, new_admin_address \in Strings :
        Apply("change_tokenfactory_admin", sender,
              [new_admin_address |-> new_admin_address],
              change_tokenfactory_admin(Store, sender, new_admin_address))

SetBlacklister ==
    \E sender \in Addrs, address \in Strings, status \in BOOLEAN :
        Apply("set_blacklister", sender, [address |-> address, status |-> status],
              set_blacklister(Store, sender, address, status))

SetFreezer ==
    \E sender \in Addrs, address \in Strings, status \in BOOLEAN :
        Apply("set_freezer", sender, [address |-> address, status |-> status],
              set_freezer(Store, sender, address, status))

SetBurner ==
    \E sender \in Addrs, address \in Strings, allowance \in Amounts :
        Apply("set_burner", sender, [address |-> address, allowance |-> allowance],
              set_burner(Store, sender, address, allowance))

SetMinter ==
    \E sender \in Addrs, address \in Strings, allowance \in Amounts :
        Apply("set_minter", sender, [address |-> address, allowance |-> allowance],
              set_minter(Store, sender, address, allowance))

Freeze ==
    \E sender \in Addrs, status \in BOOLEAN :
        Apply("freeze", sender, [status |-> status], freeze(Store, sender, status))

Blacklist ==
    \E sender \in Addrs, address \in Strings, status \in BOOLEAN :
        Apply("blacklist", sender, [address |-> address, status |-> status],
              blacklist(Store, sender, address, status))

ExecuteMint ==
    \E sender \in Addrs, to_address \in Strings, amount \in Amounts :
        Apply("execute_mint", sender, [to_address |-> to_address, amount |-> amount],
              execute(Store, sender, [type |-> "Mint", to_address |-> to_address,
                                      amount |-> amount]))

ExecuteBlacklist ==
    \E sender \in Addrs, address \in Strings, status \in BOOLEAN :
        Apply("execute_blacklist", sender, [address |-> address, status |-> status],
              execute(Store, sender, [type |-> "Blacklist", address |-> address,
                                      status |-> status]))

BeforeSend ==
    \E from \in Strings, to \in Strings, amount \in Amounts :
        Apply("beforesend_hook", ContractAddr,
              [from |-> from, to |-> to, amount |-> amount],
              sudo(Store, [from |-> from, to |-> to, amount |-> amount]))

Query ==
    \E msg \in {"IsFrozen", "Denom"} :
        Apply("query", ContractAddr, [msg |-> msg], query(Store, msg))

\* the entry point returns: the host takes the result and the messages
Return ==
    /\ last.op # "idle"
    /\ last' = Idle
    /\ UNCHANGED <<CONFIG, MINTER_ALLOWANCES, BURNER_ALLOWANCES, FREEZER_ALLOWANCES,
                   BLACKLISTER_ALLOWANCES, BLACKLISTED_ADDRESSES, steps,
                   granted, consumed>>

Next ==
    \/ Mint
    \/ Burn
    \/ ChangeContractOwner
    \/ ChangeTokenfactoryAdmin
    \/ SetBlacklister
    \/ SetFreezer
    \/ SetBurner
    \/ SetMinter
    \/ Freeze
    \/ Blacklist
    \/ ExecuteMint
    \/ ExecuteBlacklist
    \/ BeforeSend
    \/ Query
    \/ Return

Spec == Init /\ [][Next]_vars

\* ---------------------------------------------------------------- properties
\* the allowance a principal holds in a map: an absent entry counts as 0
current_allowance(m, p) == unwrap_or_default(may_load(m, p))

\* the permission a principal holds in a map: an absent entry counts as false
has_permission(m, p) == may_load(m, p) = <<TRUE>>

\* the verdict of the pre-transfer guard on a restricted sender
Blacklisted == "Blacklisted"

\* the call left the storage as it found it
StateUnchanged == Store = last.before

MintOps == {"mint", "execute_mint"}

OwnerOps == {"set_minter", "set_burner", "set_freezer", "set_blacklister",
             "change_contract_owner", "change_tokenfactory_admin"}

\* C1: a Mint (well-formed recipient) or Burn of a > 0 by p succeeds and leaves
\* p's allowance at old - a when a <= old; when a > old (an absent entry is 0) it
\* fails with the insufficient-allowance error and the storage is unchanged; no
\* stored allowance is negative.
AllowanceConservation ==
    /\ (last.op \in MintOps /\ last.args.to_address \in Addrs /\ last.args.amount > 0) =>
          LET old == current_allowance(last.before.MINTER_ALLOWANCES, last.sender)
          IN IF last.args.amount <= old
             THEN /\ last.res = OkRes
                  /\ current_allowance(MINTER_ALLOWANCES, last.sender)
                        = old - last.args.amount
             ELSE last.res = InsufficientAllowance /\ StateUnchanged
    /\ (last.op = "burn" /\ last.args.amount > 0) =>
          LET old == current_allowance(last.before.BURNER_ALLOWANCES, last.sender)
          IN IF last.args.amount <= old
             THEN /\ last.res = OkRes
                  /\ current_allowance(BURNER_ALLOWANCES, last.sender)
                        = old - last.args.amount
             ELSE last.res = InsufficientAllowance /\ StateUnchanged
    /\ \A p \in DOMAIN MINTER_ALLOWANCES : MINTER_ALLOWANCES[p] >= 0
    /\ \A p \in DOMAIN BURNER_ALLOWANCES : BURNER_ALLOWANCES[p] >= 0

\* a minter holding 2 has minted 1 and is left with 1
AllowanceConservationWitness ==
    /\ last.op = "mint" /\ last.res = OkRes /\ last.args.amount = 1
    /\ current_allowance(last.before.MINTER_ALLOWANCES, last.sender) = 2
    /\ current_allowance(MINTER_ALLOWANCES, last.sender) = 1

\* C2: each owner-gated command succeeds only for the caller that is CONFIG.owner;
\* from any other caller it returns Unauthorized and changes nothing.
OwnershipGate ==
    last.op \in OwnerOps =>
        /\ last.res = OkRes => last.sender = last.before.CONFIG.owner
        /\ last.sender # last.before.CONFIG.owner =>
              last.res = Unauthorized /\ StateUnchanged /\ last.msgs = <<>>

\* a principal that holds the Freezer permission and is not the owner was refused
OwnershipGateWitness ==
    /\ last.op \in OwnerOps /\ last.res = Unauthorized
    /\ last.sender # CONFIG.owner
    /\ has_permission(FREEZER_ALLOWANCES, last.sender)

\* a successful freeze sets the flag to its argument, and the flag, once set,
\* stays set through every call that is not a successful Freeze(false)
FrozenPeriod ==
    /\ (last.op = "freeze" /\ last.res = OkRes) => CONFIG.is_frozen = last.args.status
    /\ (last.before.CONFIG.is_frozen
          /\ ~(last.op = "freeze" /\ last.res = OkRes /\ ~last.args.status))
       => CONFIG.is_frozen

\* C3 as stated: while frozen, the hook rejects every (from, to, amount) with
\* Frozen; only a successful Freeze(false) ends the frozen period; when not frozen
\* the hook does not reject with Frozen.
FreezeEnforcementAsStated ==
    /\ FrozenPeriod
    /\ last.op = "beforesend_hook" =>
          IF last.before.CONFIG.is_frozen THEN last.res = Frozen
          ELSE last.res # Frozen

\* C3: while frozen, the hook rejects every call: with Frozen when from and to are
\* well-formed, with the invalid-address error when either is not; only a
\* successful Freeze(false) ends the frozen period; when not frozen the hook does
\* not reject with Frozen.
FreezeEnforcement ==
    /\ FrozenPeriod
    /\ last.op = "beforesend_hook" =>
          IF last.before.CONFIG.is_frozen
          THEN last.res = IF last.args.from \in Addrs /\ last.args.to \in Addrs
                          THEN Frozen ELSE InvalidAddress
          ELSE last.res # Frozen

\* a transfer between well-formed addresses was rejected with Frozen
FreezeEnforcementWitness ==
    /\ last.op = "beforesend_hook" /\ last.res = Frozen
    /\ last.args.from \in Addrs /\ last.args.to \in Addrs
    /\ CONFIG.is_frozen

\* C4: is_frozen is false after instantiate; it changes only in a freeze call by a
\* sender whose Freezer permission is true; a freeze by any other sender, the
\* owner included, returns Unauthorized and leaves it; a permitted freeze leaves
\* it equal to the status argument.
FreezeFlagMachine ==
    /\ last.op = "instantiate" => ~CONFIG.is_frozen
    /\ CONFIG.is_frozen # last.before.CONFIG.is_frozen =>
          /\ last.op = "freeze"
          /\ has_permission(last.before.FREEZER_ALLOWANCES, last.sender)
    /\ last.op = "freeze" =>
          IF has_permission(last.before.FREEZER_ALLOWANCES, last.sender)
          THEN last.res = OkRes /\ CONFIG.is_frozen = last.args.status
          ELSE /\ last.res = Unauthorized
               /\ CONFIG.is_frozen = last.before.CONFIG.is_frozen

\* Frozen -> Active: a freezer has unfrozen a contract that was frozen
FreezeFlagMachineWitness ==
    /\ last.op = "freeze" /\ last.res = OkRes
    /\ last.before.CONFIG.is_frozen /\ ~CONFIG.is_frozen
BlacklistOps == {"blacklist", "execute_blacklist"}

GrantOps == {"set_minter", "set_burner", "set_freezer", "set_blacklister"}

\* C5: while not frozen, the hook rejects a transfer whose sender is marked
\* restricted with Blacklisted and allows one whose sender is not (from and to
\* well-formed); a successful SetBlacklistStatus(X, status) leaves X's entry at
\* status, and the blacklist changes in no other call.
BlacklistEnforcement ==
    /\ (last.op \in BlacklistOps /\ last.res = OkRes) =>
          may_load(BLACKLISTED_ADDRESSES, last.args.address) = <<last.args.status>>
    /\ BLACKLISTED_ADDRESSES # last.before.BLACKLISTED_ADDRESSES =>
          last.op \in BlacklistOps /\ last.res = OkRes
    /\ (last.op = "beforesend_hook" /\ ~last.before.CONFIG.is_frozen
          /\ last.args.from \in Addrs /\ last.args.to \in Addrs) =>
          IF has_permission(last.before.BLACKLISTED_ADDRESSES, last.args.from)
          THEN last.res = Blacklisted
          ELSE last.res = OkRes

\* C6: SetBlacklistStatus(target, status), target well-formed, succeeds exactly
\* when the caller's Blacklister permission is true and then leaves target's entry
\* at status; with the entry absent or false it returns Unauthorized and the
\* blacklist is unchanged, for the owner as for anyone.
BlacklistAuthorization ==
    (last.op \in BlacklistOps /\ last.args.address \in Addrs) =>
        IF has_permission(last.before.BLACKLISTER_ALLOWANCES, last.sender)
        THEN /\ last.res = OkRes
             /\ may_load(BLACKLISTED_ADDRESSES, last.args.address) = <<last.args.status>>
        ELSE /\ last.res = Unauthorized
             /\ BLACKLISTED_ADDRESSES = last.before.BLACKLISTED_ADDRESSES

\* C7 as stated: Mint(to, 0) and Burn(0) return ZeroAmount for every caller,
\* recipient argument and state, and change nothing.
ZeroAmountRejectionAsStated ==
    (last.op \in MintOps \cup {"burn"} /\ last.args.amount = 0) =>
        last.res = ZeroAmount /\ StateUnchanged /\ last.msgs = <<>>

\* C7: Burn(0), and Mint(to, 0) with a well-formed recipient, return ZeroAmount for
\* every caller and state; Mint(to, 0) with a malformed recipient returns the
\* invalid-address error; none of them changes the storage or emits a message.
ZeroAmountRejection ==
    (last.op \in MintOps \cup {"burn"} /\ last.args.amount = 0) =>
        /\ last.res = IF last.op \in MintOps /\ last.args.to_address \notin Addrs
                      THEN InvalidAddress ELSE ZeroAmount
        /\ StateUnchanged
        /\ last.msgs = <<>>

\* a burner holding a positive allowance was refused a zero burn
ZeroAmountRejectionWitness ==
    /\ last.op = "burn" /\ last.args.amount = 0 /\ last.res = ZeroAmount
    /\ current_allowance(BURNER_ALLOWANCES, last.sender) > 0

\* C8: a call that returns an error leaves CONFIG and the five maps as they were
\* and emits no message.
CommandAtomicity ==
    last.res # OkRes => StateUnchanged /\ last.msgs = <<>>

\* a non-owner's set_burner for a well-formed address was refused
CommandAtomicityWitness ==
    /\ last.op = "set_burner" /\ last.res = Unauthorized
    /\ last.args.address \in Addrs
    /\ last.args.allowance # current_allowance(BURNER_ALLOWANCES, last.args.address)

\* C9: a successful grant leaves the entry equal to the granted value whatever it
\* was before, and a grant by the owner for a well-formed address succeeds
\* whatever the entry was, the granted value included.
GrantsOverwrite ==
    /\ (last.op = "set_minter" /\ last.res = OkRes) =>
          may_load(MINTER_ALLOWANCES, last.args.address) = <<last.args.allowance>>
    /\ (last.op = "set_burner" /\ last.res = OkRes) =>
          may_load(BURNER_ALLOWANCES, last.args.address) = <<last.args.allowance>>
    /\ (last.op = "set_freezer" /\ last.res = OkRes) =>
          may_load(FREEZER_ALLOWANCES, last.args.address) = <<last.args.status>>
    /\ (last.op = "set_blacklister" /\ last.res = OkRes) =>
          may_load(BLACKLISTER_ALLOWANCES, last.args.address) = <<last.args.status>>
    /\ (last.op \in GrantOps /\ last.sender = last.before.CONFIG.owner
          /\ last.args.address \in Addrs) => last.res = OkRes

\* the grant of N > 0 to a minter that already held N succeeded and left N
GrantsOverwriteWitness ==
    /\ last.op = "set_minter" /\ last.res = OkRes /\ last.args.allowance > 0
    /\ may_load(last.before.MINTER_ALLOWANCES, last.args.address)
          = <<last.args.allowance>>
    /\ may_load(MINTER_ALLOWANCES, last.args.address) = <<last.args.allowance>>

\* C10: after instantiate with subdenom d by sender s, the Denom query returns d,
\* the IsFrozen query returns false and CONFIG.owner = s.
InitializationResult ==
    last.op = "instantiate" =>
        /\ query(Store, "Denom").data = <<last.args.subdenom>>
        /\ query(Store, "IsFrozen").data = <<FALSE>>
        /\ CONFIG.owner = last.sender
\* the two messages of a mint of amount to to_address, in order
MintMsgs(denom, to_address, amount) ==
    << [type |-> "MintTokens", denom |-> denom, amount |-> amount,
        mint_to_address |-> ContractAddr],
       [type |-> "BankSend", to_address |-> to_address, amount |-> amount,
        denom |-> denom] >>

\* the message of a burn of amount
BurnMsgs(denom, amount) ==
    << [type |-> "BurnTokens", denom |-> denom, amount |-> amount,
        burn_from_address |-> ""] >>

\* C11: a successful Mint(to, amount), through the execute entry point as through
\* the handler, emits exactly the mint of amount of CONFIG.denom into the
\* contract's custody and then the transfer of it to `to`; a failing Mint emits
\* nothing; a successful Burn(amount) emits exactly the burn of amount.
MintSideEffects ==
    /\ last.op \in MintOps =>
          last.msgs = IF last.res = OkRes
                      THEN MintMsgs(last.before.CONFIG.denom, last.args.to_address,
                                    last.args.amount)
                      ELSE <<>>
    /\ last.op = "burn" =>
          last.msgs = IF last.res = OkRes
                      THEN BurnMsgs(last.before.CONFIG.denom, last.args.amount)
                      ELSE <<>>

\* C12: a call of the hook, allowed or rejected, leaves CONFIG and the five maps
\* as they were, and the same call made again in the state it leaves returns the
\* same verdict.
HookReadOnly ==
    last.op = "beforesend_hook" =>
        /\ StateUnchanged
        /\ last.msgs = <<>>
        /\ sudo(Store, last.args).res = last.res

\* the hook allowed a transfer after looking up a sender that is marked restricted
HookReadOnlyWitness ==
    /\ last.op = "beforesend_hook" /\ last.res = OkRes
    /\ has_permission(BLACKLISTED_ADDRESSES, last.args.from)

\* C13: ChangeAdmin by the owner with a well-formed new_admin emits exactly one
\* message, the change of the admin of CONFIG.denom to new_admin, and leaves the
\* storage unchanged, so the caller is still the owner.
ChangeAdminFrame ==
    (last.op = "change_tokenfactory_admin"
       /\ last.sender = last.before.CONFIG.owner
       /\ last.args.new_admin_address \in Addrs) =>
        /\ last.res = OkRes
        /\ last.msgs = << [type |-> "ChangeAdmin", denom |-> last.before.CONFIG.denom,
                           new_admin_address |-> last.args.new_admin_address] >>
        /\ StateUnchanged
        /\ CONFIG.owner = last.sender

\* the owner has named another principal admin and is still the owner
ChangeAdminFrameWitness ==
    /\ last.op = "change_tokenfactory_admin" /\ last.res = OkRes
    /\ last.args.new_admin_address # last.sender
    /\ CONFIG.owner = last.sender
    /\ Len(last.msgs) = 1
\* a successful mint or burn lowers the sender's allowance by exactly its amount
DecrementsOnce ==
    /\ (last.op \in MintOps /\ last.res = OkRes) =>
          current_allowance(MINTER_ALLOWANCES, last.sender)
             = current_allowance(last.before.MINTER_ALLOWANCES, last.sender)
                  - last.args.amount
    /\ (last.op = "burn" /\ last.res = OkRes) =>
          current_allowance(BURNER_ALLOWANCES, last.sender)
             = current_allowance(last.before.BURNER_ALLOWANCES, last.sender)
                  - last.args.amount

\* C14 as stated: whenever a principal's allowance is lower than it was before the
\* call, the call is a successful Mint (minter allowance) or Burn (burner
\* allowance) by that principal; each successful Mint or Burn lowers it by exactly
\* the amount.
OnlyConsumptionDecreasesAsStated ==
    /\ \A p \in Addrs :
          current_allowance(MINTER_ALLOWANCES, p)
             < current_allowance(last.before.MINTER_ALLOWANCES, p)
          => last.op \in MintOps /\ last.res = OkRes /\ last.sender = p
    /\ \A p \in Addrs :
          current_allowance(BURNER_ALLOWANCES, p)
             < current_allowance(last.before.BURNER_ALLOWANCES, p)
          => last.op = "burn" /\ last.res = OkRes /\ last.sender = p
    /\ DecrementsOnce

\* C14: whenever a principal's allowance is lower than it was before the call, the
\* call is a successful Mint (minter allowance) or Burn (burner allowance) by that
\* principal, or a successful grant by the owner that sets that principal's
\* allowance to the lower value; each successful Mint or Burn lowers it by exactly
\* the amount.
OnlyConsumptionDecreases ==
    /\ \A p \in Addrs :
          current_allowance(MINTER_ALLOWANCES, p)
             < current_allowance(last.before.MINTER_ALLOWANCES, p)
          => \/ last.op \in MintOps /\ last.res = OkRes /\ last.sender = p
             \/ /\ last.op = "set_minter" /\ last.res = OkRes
                /\ last.sender = last.before.CONFIG.owner
                /\ last.args.address = p
                /\ last.args.allowance = current_allowance(MINTER_ALLOWANCES, p)
    /\ \A p \in Addrs :
          current_allowance(BURNER_ALLOWANCES, p)
             < current_allowance(last.before.BURNER_ALLOWANCES, p)
          => \/ last.op = "burn" /\ last.res = OkRes /\ last.sender = p
             \/ /\ last.op = "set_burner" /\ last.res = OkRes
                /\ last.sender = last.before.CONFIG.owner
                /\ last.args.address = p
                /\ last.args.allowance = current_allowance(BURNER_ALLOWANCES, p)
    /\ DecrementsOnce

\* a burner holding 2 has burned 1 and is left with 1
OnlyConsumptionDecreasesWitness ==
    /\ last.op = "burn" /\ last.res = OkRes /\ last.args.amount = 1
    /\ current_allowance(last.before.BURNER_ALLOWANCES, last.sender) = 2
    /\ current_allowance(BURNER_ALLOWANCES, last.sender) = 1

\* C15: a successful ChangeOwner(new_owner) by the owner sets CONFIG.owner to
\* new_owner and changes nothing else; CONFIG.owner changes in no other call; in
\* every state the owner is one well-formed principal, and an owner-gated command
\* returns Unauthorized exactly when its sender is not the owner at that moment,
\* the previous owner included.
OwnershipHandOver ==
    /\ CONFIG.owner \in Addrs
    /\ CONFIG.owner # last.before.CONFIG.owner =>
          last.op = "change_contract_owner" /\ last.res = OkRes
    /\ last.op = "change_contract_owner" =>
          /\ (last.sender = last.before.CONFIG.owner /\ last.args.new_owner \in Addrs)
                => last.res = OkRes
          /\ last.res = OkRes =>
                Store = [last.before EXCEPT !.CONFIG.owner = last.args.new_owner]
    /\ last.op \in OwnerOps =>
          (last.res = Unauthorized <=> last.sender # last.before.CONFIG.owner)

\* the owner of a frozen contract has handed it over to another principal
OwnershipHandOverWitness ==
    /\ last.op = "change_contract_owner" /\ last.res = OkRes
    /\ last.args.new_owner # last.sender
    /\ CONFIG.owner = last.args.new_owner
    /\ CONFIG.is_frozen

\* C16: Mint fails on the first violated precondition in the order malformed `to`
\* (invalid address), amount 0 (ZeroAmount), amount above the sender's minter
\* allowance (insufficient allowance), and succeeds otherwise; Burn checks amount 0
\* before the allowance.
MintCheckOrder ==
    /\ last.op \in MintOps =>
          last.res =
             IF last.args.to_address \notin Addrs THEN InvalidAddress
             ELSE IF last.args.amount = 0 THEN ZeroAmount
             ELSE IF last.args.amount
                       > current_allowance(last.before.MINTER_ALLOWANCES, last.sender)
                  THEN InsufficientAllowance
             ELSE OkRes
    /\ last.op = "burn" =>
          last.res =
             IF last.args.amount = 0 THEN ZeroAmount
             ELSE IF last.args.amount
                       > current_allowance(last.before.BURNER_ALLOWANCES, last.sender)
                  THEN InsufficientAllowance
             ELSE OkRes

\* a Mint of 0 to a malformed recipient by a minter holding an allowance was
\* answered with the invalid-address error
MintCheckOrderWitness ==
    /\ last.op = "mint" /\ last.args.to_address \notin Addrs /\ last.args.amount = 0
    /\ last.res = InvalidAddress
    /\ current_allowance(MINTER_ALLOWANCES, last.sender) > 0
\* C17: CONFIG.denom is the value instantiate stored: no call changes it, and every
\* message a call emits carries it.
DenomImmutable ==
    /\ CONFIG.denom = last.before.CONFIG.denom
    /\ \A i \in 1..Len(last.msgs) : last.msgs[i].denom = CONFIG.denom

\* a message was emitted by a contract whose Config has been rewritten by freeze
DenomImmutableWitness ==
    /\ Len(last.msgs) > 0
    /\ last.msgs[1].denom = CONFIG.denom
    /\ CONFIG.is_frozen

\* C18: for every principal p, the total of p's successful Mints since the most
\* recent successful SetMinterAllowance(p, N) (N = 0 when there was none) plus p's
\* current minter allowance equals N; the same for Burn and the burner allowance.
MintingBoundedByGrants ==
    \A p \in Addrs :
        /\ consumed.MINTER[p] + current_allowance(MINTER_ALLOWANCES, p)
              = granted.MINTER[p]
        /\ consumed.BURNER[p] + current_allowance(BURNER_ALLOWANCES, p)
              = granted.BURNER[p]

\* a minter granted 2 has used it up in two Mints
MintingBoundedByGrantsWitness ==
    /\ last.op \in MintOps /\ last.res = OkRes
    /\ consumed.MINTER[last.sender] = 2
    /\ last.args.amount = 1
    /\ granted.MINTER[last.sender] = 2
    /\ current_allowance(MINTER_ALLOWANCES, last.sender) = 0
\* the one cell a successful call may write: a map with the key it writes there,
\* or a field of CONFIG; <<>> for a call that writes nothing
CellOf(op, sender, args) ==
    IF op \in MintOps THEN <<"MINTER_ALLOWANCES", sender>>
    ELSE IF op = "burn" THEN <<"BURNER_ALLOWANCES", sender>>
    ELSE IF op = "set_minter" THEN <<"MINTER_ALLOWANCES", args.address>>
    ELSE IF op = "set_burner" THEN <<"BURNER_ALLOWANCES", args.address>>
    ELSE IF op = "set_freezer" THEN <<"FREEZER_ALLOWANCES", args.address>>
    ELSE IF op = "set_blacklister" THEN <<"BLACKLISTER_ALLOWANCES", args.address>>
    ELSE IF op \in BlacklistOps THEN <<"BLACKLISTED_ADDRESSES", args.address>>
    ELSE IF op = "freeze" THEN <<"CONFIG", "is_frozen">>
    ELSE IF op = "change_contract_owner" THEN <<"CONFIG", "owner">>
    ELSE <<>>

\* map m (or CONFIG) of the storage is as before the call at every key but the cell
KeptOutside(name, now, was, cell) ==
    \A k \in (DOMAIN now) \cup (DOMAIN was) :
        (cell # <<name, k>>) => (k \in DOMAIN now /\ k \in DOMAIN was /\ now[k] = was[k])

\* C19: a successful call changes at most its one cell: Mint and Burn the sender's
\* minter or burner allowance, each grant the target's entry of its map,
\* SetBlacklistStatus the target's blacklist entry, Freeze CONFIG.is_frozen,
\* ChangeOwner CONFIG.owner; every other entry, map and CONFIG field is kept.
OneCellPerCommand ==
    (last.op # "instantiate" /\ last.res = OkRes) =>
        LET cell == CellOf(last.op, last.sender, last.args) IN
        /\ KeptOutside("CONFIG", CONFIG, last.before.CONFIG, cell)
        /\ KeptOutside("MINTER_ALLOWANCES", MINTER_ALLOWANCES,
                       last.before.MINTER_ALLOWANCES, cell)
        /\ KeptOutside("BURNER_ALLOWANCES", BURNER_ALLOWANCES,
                       last.before.BURNER_ALLOWANCES, cell)
        /\ KeptOutside("FREEZER_ALLOWANCES", FREEZER_ALLOWANCES,
                       last.before.FREEZER_ALLOWANCES, cell)
        /\ KeptOutside("BLACKLISTER_ALLOWANCES", BLACKLISTER_ALLOWANCES,
                       last.before.BLACKLISTER_ALLOWANCES, cell)
        /\ KeptOutside("BLACKLISTED_ADDRESSES", BLACKLISTED_ADDRESSES,
                       last.before.BLACKLISTED_ADDRESSES, cell)

\* a grant to one minter changed its entry beside another minter's entry
OneCellPerCommandWitness ==
    /\ last.op = "set_minter" /\ last.res = OkRes
    /\ may_load(last.before.MINTER_ALLOWANCES, last.args.address)
          # may_load(MINTER_ALLOWANCES, last.args.address)
    /\ \E q \in DOMAIN MINTER_ALLOWANCES :
          q # last.args.address /\ MINTER_ALLOWANCES[q] > 0

\* the outcome of a call for its sender: result, messages, and the allowance the
\* sender is left with in map `role`
Outcome(r, role, sender) ==
    [res |-> r.res, msgs |-> r.msgs,
     allowance |-> current_allowance(r.store[role], sender)]

\* map m without the entries of the principals other than p
OnlyEntryOf(m, p) == [k \in (DOMAIN m) \cap {p} |-> m[k]]

\* the blacklists and permission maps tried: no entry, every principal true
FlagMaps == {EmptyMap, [q \in Addrs |-> TRUE]}

\* storages that agree with s on p's allowance in map `role` and on the denom, and
\* differ in is_frozen, the owner, the blacklist, the permission flags, the other
\* principals' allowances and the other allowance map
Variants(s, role, p) ==
    LET other == IF role = "MINTER_ALLOWANCES" THEN "BURNER_ALLOWANCES"
                 ELSE "MINTER_ALLOWANCES"
    IN { [s EXCEPT !.CONFIG.is_frozen = f, !.CONFIG.owner = o,
                   !.BLACKLISTED_ADDRESSES = bl,
                   !.FREEZER_ALLOWANCES = pm, !.BLACKLISTER_ALLOWANCES = pm,
                   ![role] = IF keep THEN @ ELSE OnlyEntryOf(@, p),
                   ![other] = IF keep THEN @ ELSE EmptyMap] :
           f \in BOOLEAN, o \in Addrs, bl \in FlagMaps, pm \in FlagMaps,
           keep \in BOOLEAN }

\* C20: the outcome of Mint(to, amount) or Burn(amount) by p (result, messages,
\* new allowance) is the one the same call has in every storage that agrees on
\* p's allowance and the denom, whatever is_frozen, the blacklist, the owner, the
\* permission flags and the other allowances are there.
MintBurnIgnoreFreezeAndBlacklist ==
    /\ last.op = "mint" =>
          \A v \in Variants(last.before, "MINTER_ALLOWANCES", last.sender) :
              Outcome(mint(v, last.sender, last.args.to_address, last.args.amount),
                      "MINTER_ALLOWANCES", last.sender)
                 = Outcome([res |-> last.res, msgs |-> last.msgs, store |-> Store],
                           "MINTER_ALLOWANCES", last.sender)
    /\ last.op = "execute_mint" =>
          \A v \in Variants(last.before, "MINTER_ALLOWANCES", last.sender) :
              Outcome(execute_mint(v, last.sender, last.args.to_address,
                                   last.args.amount),
                      "MINTER_ALLOWANCES", last.sender)
                 = Outcome([res |-> last.res, msgs |-> last.msgs, store |-> Store],
                           "MINTER_ALLOWANCES", last.sender)
    /\ last.op = "burn" =>
          \A v \in Variants(last.before, "BURNER_ALLOWANCES", last.sender) :
              Outcome(burn(v, last.sender, last.args.amount),
                      "BURNER_ALLOWANCES", last.sender)
                 = Outcome([res |-> last.res, msgs |-> last.msgs, store |-> Store],
                           "BURNER_ALLOWANCES", last.sender)

\* a Mint on a frozen contract was answered on the allowance, not on the freeze
MintBurnIgnoreFreezeAndBlacklistWitness ==
    /\ last.op = "mint" /\ last.args.amount > 0 /\ last.args.to_address \in Addrs
    /\ last.before.CONFIG.is_frozen
    /\ last.res = InsufficientAllowance
====
